---- MODULE Spec2Model ----
(***************************************************************************)
(* The PDF classification pipeline of pdf_processor_v6.py (discovery,      *)
(* resume index, process pool, batch queue, CSV writer thread) and the     *)
(* per-file classifier of both pdf_processor_v6.py and pdf_processor.py.   *)
(*                                                                         *)
(* A path string is modelled as the sequence of its components: "./a.pdf"  *)
(* is <<".", "a.pdf">>, "d/a.pdf" is <<"d", "a.pdf">>.                     *)
(***************************************************************************)
EXTENDS Integers, Sequences, FiniteSets, TLC

VARIABLES
    platform,       \* sys.platform of the interpreter: "linux" or "win32"
    root_path,      \* str(Path(root_path)), the argument of find and rglob
    rootExists,     \* whether root_path exists on disk
    csvOpenable,    \* whether open(csv_file, 'a') succeeds
    findOut,        \* the lines find prints on its stdout, in order
    csv,            \* the rows of csv_file on disk
    csvExists,      \* os.path.exists(csv_file)
    pc,             \* position of the main thread inside process_pdfs
    cause,          \* the exception that ended the process, or "none"
    runs,           \* number of invocations of process_pdfs started so far
    processed,      \* the resume index returned by load_processed_csv
    load_error,     \* load_processed_csv took its except branch in this run
    genPhase,       \* find_pdf_files: "find", "rglob" or "done"
    genPos,         \* find_pdf_files: lines (entries) consumed in this phase
    seen,           \* find_pdf_files: the set seen
    emitted,        \* every path the generator yielded in this run, in order
    futures,        \* the futures dict, in submission order
    batch_rows,     \* the pending batch of the main thread
    csv_queue,      \* the Queue between main thread and writer thread
    put_log,        \* every item csv_queue.put() has enqueued in this run
    stats,          \* stats["processed"] and stats["category_counts"]
    wpc,            \* position of csv_writer_thread
    collected,      \* every result the as_completed loop received in this run
    runStartLen,    \* Len(csv) when this run started
    runStartExists, \* csvExists when this run started
    doc,            \* classifier runs: the file handed to process_single_pdf
    info6,          \* classifier runs: result of pdf_processor_v6's function
    info1           \* classifier runs: result of pdf_processor's function

envVars == <<platform, root_path, rootExists, csvOpenable, findOut>>
storeVars == <<csv, csvExists>>
genVars == <<genPhase, genPos, seen, emitted>>
mainVars == <<pc, cause, runs, processed, load_error, futures, batch_rows,
              stats, collected, runStartLen, runStartExists>>
chanVars == <<csv_queue, put_log, wpc>>
docVars == <<doc, info6, info1>>
vars == <<envVars, storeVars, genVars, mainVars, chanVars, docVars>>

-----------------------------------------------------------------------------
(* Configuration of pdf_processor_v6.py and pdf_processor.py.              *)

PAGE_COUNT_THRESHOLD == 100
FILE_SIZE_THRESHOLD_BYTES == 10 * 1024 * 1024
\* if size < 100 in pdf_processor.process_single_pdf
TOO_SMALL_BYTES == 100
MiB == 1024 * 1024

\* BATCH_WRITE_SIZE is 1000 and CSV_QUEUE_MAXSIZE is 5000 in the source; the
\* model runs the same code with both scaled down so that full batches and a
\* full queue occur with a handful of files.
BATCH_WRITE_SIZE == 2
CSV_QUEUE_MAXSIZE == 2

\* Number of invocations of process_pdfs against the same store.
MaxRuns == 3
\* Number of lines find may print.
MaxFiles == 2
\* Number of files of the tree in the runs over a larger tree.
ManyFiles == 7

-----------------------------------------------------------------------------
(* Paths.                                                                  *)

NoPath == <<>>
Platforms == {"linux", "win32"}
\* str(Path(root_path)) for the root directories "d" and "."
Roots == {<<"d">>, <<".">>}
Names == {"a.pdf", "A.PDF"}

\* str.lower() on one path component.
Lower(c) ==
    CASE c = "A.PDF" -> "a.pdf"
      [] OTHER -> c

\* os.path.normcase: ntpath lower-cases, posixpath returns its argument.
normcase(p) ==
    IF platform = "linux" THEN p ELSE [i \in 1..Len(p) |-> Lower(p[i])]

RECURSIVE DropDots(_)
DropDots(p) ==
    IF p = <<>> THEN <<>>
    ELSE IF Head(p) = "." THEN DropDots(Tail(p))
    ELSE <<Head(p)>> \o DropDots(Tail(p))

\* str(Path(p)): pathlib drops every "." component; the empty path is ".".
PathStr(p) ==
    LET q == DropDots(p) IN IF q = <<>> THEN <<".">> ELSE q

-----------------------------------------------------------------------------
(* process_single_pdf.                                                     *)

\* round(file_size_bytes / (1024 * 1024), 2), in hundredths of a MiB.  The
\* quotient is exact in binary floating point, so round() rounds the exact
\* value, ties to even.
RoundMB(size) ==
    LET q == (size * 100) \div MiB
        r == (size * 100) % MiB
    IN  IF 2 * r > MiB THEN q + 1
        ELSE IF 2 * r = MiB THEN q + (q % 2)
        ELSE q

\* Category with both comparisons made inclusive.
CategoryInclusive(page_count, size) ==
    LET page_cat == IF page_count >= PAGE_COUNT_THRESHOLD THEN "L" ELSE "S"
        size_cat == IF size >= FILE_SIZE_THRESHOLD_BYTES THEN "L" ELSE "S"
    IN  page_cat \o "-" \o size_cat

\* page_cat, size_cat and the f-string of process_single_pdf (both files)
Category(page_count, size) ==
    LET page_cat == IF page_count > PAGE_COUNT_THRESHOLD THEN "L" ELSE "S"
        size_cat == IF size > FILE_SIZE_THRESHOLD_BYTES THEN "L" ELSE "S"
    IN  page_cat \o "-" \o size_cat

NA == "N/A"

\* What the file system and PyMuPDF answer for one file:
\*   path       the path string submitted to the pool
\*   stat_ok    pdf_path.stat() returns (else it raises)
\*   size       st_size
\*   open_ok    fitz.open() returns a document (else it raises)
\*   encrypted  doc.is_encrypted
\*   count_ok   doc.page_count / len(doc) returns (else it raises)
\*   pages      the page count it returns
\* pdf_processor_v6.process_single_pdf
process_single_pdf(d) ==
    LET info0 == [file_path |-> PathStr(d.path), page_count |-> 0,
                  file_size_mb |-> 0, category |-> NA]
    IN  IF ~d.stat_ok THEN info0
        ELSE LET info1a == [info0 EXCEPT !.file_size_mb = RoundMB(d.size)]
             IN  IF ~d.open_ok \/ ~d.count_ok THEN info1a
                 ELSE [info1a EXCEPT !.page_count = d.pages,
                                     !.category = Category(d.pages, d.size)]

\* pdf_processor.process_single_pdf (processing_time is wall time, left out)
process_single_pdf_v1(d) ==
    LET info0 == [file_path |-> PathStr(d.path), file_size_bytes |-> 0,
                  can_open |-> FALSE, page_count |-> 0,
                  error_message |-> "", category |-> NA]
    IN  IF ~d.stat_ok THEN [info0 EXCEPT !.error_message = "stat failed"]
        ELSE LET info1a == [info0 EXCEPT !.file_size_bytes = d.size]
             IN  IF d.size < TOO_SMALL_BYTES
                 THEN [info1a EXCEPT !.error_message = "too small"]
                 ELSE IF ~d.open_ok
                 THEN [info1a EXCEPT !.error_message = "cannot open"]
                 ELSE IF d.encrypted
                 THEN [info1a EXCEPT !.error_message = "encrypted"]
                 ELSE IF ~d.count_ok
                 THEN [info1a EXCEPT !.error_message = "cannot count pages"]
                 ELSE [info1a EXCEPT !.page_count = d.pages,
                                     !.can_open = TRUE,
                                     !.category = Category(d.pages, d.size)]

-----------------------------------------------------------------------------
(* Classifier runs: process_single_pdf of both files applied to one file.  *)

Sizes == {50, 99, 100, 131072, 5 * MiB, 10 * MiB, 10 * MiB + 1, 15 * MiB}
PageCounts == {1, 100, 101, 150}
DocPaths == {<<"d", "a.pdf">>, <<".", "a.pdf">>}
Docs == [path : DocPaths, stat_ok : BOOLEAN, size : Sizes, open_ok : BOOLEAN,
         encrypted : BOOLEAN, count_ok : BOOLEAN, pages : PageCounts]

NoDoc == [path |-> NoPath]
NoInfo == [category |-> "none"]

\* The pipeline's variables while only the classifier runs.
PipelineOff ==
    /\ platform = "linux" /\ root_path = <<"d">> /\ rootExists = TRUE
    /\ csvOpenable = TRUE /\ findOut = <<>>
    /\ csv = <<>> /\ csvExists = FALSE
    /\ pc = "off" /\ cause = "none" /\ runs = 0 /\ processed = {}
    /\ load_error = FALSE
    /\ genPhase = "done" /\ genPos = 0 /\ seen = {}
    /\ emitted = <<>> /\ futures = <<>> /\ batch_rows = <<>>
    /\ csv_queue = <<>> /\ put_log = <<>> /\ wpc = "off" /\ collected = <<>>
    /\ stats = [processed |-> 0, category_counts |-> <<>>]
    /\ runStartLen = 0 /\ runStartExists = FALSE

InitClassify ==
    /\ PipelineOff
    /\ doc \in Docs
    /\ info6 = NoInfo
    /\ info1 = NoInfo

ClassifyV6 ==
    /\ pc = "off" /\ info6 = NoInfo
    /\ info6' = process_single_pdf(doc)
    /\ UNCHANGED <<envVars, storeVars, genVars, mainVars, chanVars, doc, info1>>

ClassifyV1 ==
    /\ pc = "off" /\ info1 = NoInfo
    /\ info1' = process_single_pdf_v1(doc)
    /\ UNCHANGED <<envVars, storeVars, genVars, mainVars, chanVars, doc, info6>>

NextDoc ==
    /\ pc = "off" /\ info6 # NoInfo /\ info1 # NoInfo
    /\ doc' \in Docs
    /\ info6' = NoInfo /\ info1' = NoInfo
    /\ UNCHANGED <<envVars, storeVars, genVars, mainVars, chanVars>>

NextClassify == ClassifyV6 \/ ClassifyV1 \/ NextDoc

SpecClassify == InitClassify /\ [][NextClassify]_vars

\* The try block of process_single_pdf ran to its end for doc.
NoFault(d) == d.stat_ok /\ d.open_ok /\ d.count_ok

FourCategories == {"S-S", "S-L", "L-S", "L-L"}

\* The label the thresholds prescribe: page class first, then size class, each
\* "L" iff strictly above its threshold (100 pages, 10 MiB).
RefCategory(pages, size) ==
    CASE pages > 100 /\ size > 10485760 -> "L-L"
      [] pages > 100 /\ size <= 10485760 -> "L-S"
      [] pages <= 100 /\ size > 10485760 -> "S-L"
      [] pages <= 100 /\ size <= 10485760 -> "S-S"

\* C6: every record produced without an error carries one of the four labels,
\* and it is the label the strict threshold comparisons prescribe (exactly
\* 10 MiB is size class S, exactly 100 pages is page class S).  For
\* pdf_processor_v6 "without an error" is that nothing raised inside the try
\* block; for pdf_processor it is can_open with an empty error_message.
C6_CategoryMatchesThresholds ==
    /\ (info6 # NoInfo /\ NoFault(doc)) =>
          /\ info6.category \in FourCategories
          /\ info6.category = RefCategory(doc.pages, doc.size)
          /\ info6.page_count = doc.pages
    /\ (info1 # NoInfo /\ info1.error_message = "") =>
          /\ info1.can_open
          /\ info1.category \in FourCategories
          /\ info1.category = RefCategory(doc.pages, doc.size)
          /\ info1.page_count = doc.pages
    /\ (info1 # NoInfo /\ info1.category \in FourCategories) =>
          info1.error_message = ""

\* C6 witness: a file of exactly 10 MiB and exactly 100 pages has been
\* classified S-S by both functions.
C6_Witness ==
    /\ info6 # NoInfo /\ info1 # NoInfo /\ NoFault(doc) /\ ~doc.encrypted
    /\ doc.size = 10 * MiB /\ doc.pages = 100
    /\ info6.category = "S-S" /\ info1.category = "S-S"

\* C7: a file below 100 bytes is N/A with page count 0 and a non-empty error
\* message, whatever PyMuPDF would answer for it.
C7_TooSmallIsUnknown ==
    /\ (info6 # NoInfo /\ doc.stat_ok /\ doc.size < 100) =>
          /\ info6.category = NA
          /\ info6.page_count = 0
    /\ (info1 # NoInfo /\ doc.stat_ok /\ doc.size < 100) =>
          /\ info1.category = NA
          /\ info1.page_count = 0
          /\ info1.error_message # ""

\* C8: a document PyMuPDF reports as encrypted is N/A, never one of the four
\* size/page labels, with an error message.
C8_EncryptedIsUnknown ==
    /\ (info6 # NoInfo /\ doc.stat_ok /\ doc.open_ok /\ doc.encrypted) =>
          /\ info6.category = NA
    /\ (info1 # NoInfo /\ doc.stat_ok /\ doc.open_ok /\ doc.encrypted) =>
          /\ info1.category = NA
          /\ info1.error_message # ""

-----------------------------------------------------------------------------
(* The store and the resume index.                                         *)

\* process_pdfs(..., resume=True): the default, and what main() passes
\* unless --no-resume is given.
resume == TRUE

\* writer.writerow(['file_path', 'page_count', 'file_size_mb', 'category'])
HeaderRow == <<<<"file_path">>, "page_count", "file_size_mb", "category">>

\* writer.writerow([row['file_path'], row['page_count'], ...])
Row(info) ==
    <<info.file_path, info.page_count, info.file_size_mb, info.category>>

RECURSIVE Rows(_)
Rows(batch) ==
    IF batch = <<>> THEN <<>> ELSE <<Row(Head(batch))>> \o Rows(Tail(batch))

\* load_processed_csv.  csv.DictReader takes the first row of the file as
\* the field names, whatever it holds, and row.get("file_path") is the cell
\* under the field named file_path, None when no field has that name.  The
\* cells of columns 2 to 4 of a data row are two numbers and a category label,
\* so only the first column can be named file_path.
load_processed_csv(rows, exists) ==
    IF ~exists \/ rows = <<>> THEN {}
    ELSE LET fieldnames == rows[1]
         IN  IF fieldnames[1] # <<"file_path">> THEN {}
             ELSE {normcase(rows[i][1]) : i \in 2..Len(rows)}

-----------------------------------------------------------------------------
(* The environment of a run.                                               *)

\* The lines find prints: each is the start point as given, then the name.
FindLine(root, name) == root \o <<name>>

RECURSIVE Streams(_, _)
Streams(root, n) ==
    IF n = 0 THEN {<<>>}
    ELSE LET shorter == Streams(root, n - 1)
         IN  shorter \cup {Append(s, FindLine(root, nm)) :
                             s \in {t \in shorter : Len(t) = n - 1}, nm \in Names}

\* str(pdf_path) for the entries of root_path.rglob: every file of the tree
\* once, as a path joined by pathlib.
RECURSIVE RglobListing(_, _)
RglobListing(lines, have) ==
    IF lines = <<>> THEN <<>>
    ELSE LET q == PathStr(Head(lines))
         IN  IF q \in have THEN RglobListing(Tail(lines), have)
             ELSE <<q>> \o RglobListing(Tail(lines), have \cup {q})

\* The file behind a path: a.pdf is a 5 MiB document of 10 pages, A.PDF is
\* 50 bytes that PyMuPDF cannot open.  On win32 the file system ignores case.
DocOf(p) ==
    LET name == normcase(p)[Len(p)]
    IN  IF name = "a.pdf"
        THEN [path |-> p, stat_ok |-> TRUE, size |-> 5 * MiB, open_ok |-> TRUE,
              encrypted |-> FALSE, count_ok |-> TRUE, pages |-> 10]
        ELSE [path |-> p, stat_ok |-> TRUE, size |-> 50, open_ok |-> FALSE,
              encrypted |-> FALSE, count_ok |-> FALSE, pages |-> 0]

AllCategories == {"S-S", "S-L", "L-S", "L-L", "N/A"}
Stats0 == [processed |-> 0, category_counts |-> [c \in AllCategories |-> 0]]

\* An item of csv_queue: a batch of rows, or the None that ends the stream.
Batch(rows) == [sentinel |-> FALSE, rows |-> rows]
None == [sentinel |-> TRUE, rows |-> <<>>]

Env(n) ==
    /\ platform \in Platforms
    /\ root_path \in Roots
    /\ rootExists \in BOOLEAN
    /\ csvOpenable \in BOOLEAN
    /\ findOut \in (IF rootExists THEN Streams(root_path, n) ELSE {<<>>})
    /\ csv = <<>>
    /\ csvExists \in BOOLEAN

RunStart ==
    /\ pc = "init" /\ cause = "none" /\ processed = {} /\ load_error = FALSE
    /\ genPhase = "find" /\ genPos = 0 /\ seen = {} /\ emitted = <<>>
    /\ futures = <<>> /\ batch_rows = <<>> /\ csv_queue = <<>>
    /\ put_log = <<>>
    /\ stats = Stats0 /\ wpc = "unborn" /\ collected = <<>>

Init ==
    /\ Env(MaxFiles)
    /\ runs = 1
    /\ RunStart
    /\ runStartLen = 0 /\ runStartExists = csvExists
    /\ doc = NoDoc /\ info6 = NoInfo /\ info1 = NoInfo

-----------------------------------------------------------------------------
(* process_pdfs: the main thread.                                          *)

\* The process ends on an exception nobody catches.  The writer is a daemon
\* thread: it is abandoned where it stands, and rows it wrote that still sit
\* in the buffer of its open file may never reach the disk.
ProcessExit(c) ==
    /\ pc' = "exited"
    /\ cause' = c
    /\ IF wpc = "loop"
       THEN /\ \E k \in runStartLen..Len(csv) : csv' = SubSeq(csv, 1, k)
            /\ wpc' = "killed"
       ELSE /\ csv' = csv
            /\ wpc' = IF wpc \in {"exited", "dead"} THEN wpc ELSE "killed"
    /\ UNCHANGED csvExists

\* lines 134-141
LoadProcessed ==
    /\ pc = "init"
    /\ processed' = IF resume THEN load_processed_csv(csv, csvExists) ELSE {}
    /\ load_error' = FALSE
    /\ pc' = "spawn"
    /\ UNCHANGED <<envVars, storeVars, genVars, chanVars, docVars, cause, runs,
                   futures, batch_rows, stats, collected, runStartLen,
                   runStartExists>>

\* lines 134-141 when open() or the read of the store raises inside
\* load_processed_csv (an I/O error, bytes that are not UTF-8, a multi-byte
\* character cut by an interrupted write) after the loop of lines 99-102 has
\* handled k rows: the except branch logs, and line 106 returns the set as
\* the loop left it.
LoadRaises ==
    /\ pc = "init"
    /\ resume /\ csvExists
    /\ \E k \in 0..Len(csv) :
           processed' = load_processed_csv(SubSeq(csv, 1, k), csvExists)
    /\ load_error' = TRUE
    /\ pc' = "spawn"
    /\ UNCHANGED <<envVars, storeVars, genVars, chanVars, docVars, cause, runs,
                   futures, batch_rows, stats, collected, runStartLen,
                   runStartExists>>

\* lines 143-148
StartWriter ==
    /\ pc = "spawn"
    /\ wpc' = "start"
    /\ pc' = "submit"
    /\ UNCHANGED <<envVars, storeVars, genVars, docVars, csv_queue, put_log,
                   cause, runs, processed, futures, batch_rows, stats,
                   collected, runStartLen, runStartExists, load_error>>

PoolBroken == \E i \in DOMAIN futures : futures[i].state = "broken"

\* seen.add(norm)
SeenAdd(s, norm) == s \cup {norm}

\* The resume filter with the normcase call left out.
InProcessedVerbatim(p) == p \in processed

\* line 148: the condition of pdf_gen, negated
InProcessed(p) == normcase(p) \in processed

\* One element of the discovery stream goes through find_pdf_files' seen
\* check, pdf_gen's resume filter and executor.submit.
Deliver(path) ==
    LET norm == normcase(path)
    IN  IF norm \in seen
        THEN UNCHANGED <<seen, emitted, futures, pc, cause, csv, csvExists, wpc>>
        ELSE /\ seen' = SeenAdd(seen, norm)
             /\ emitted' = Append(emitted, path)
             /\ IF InProcessed(path)
                THEN UNCHANGED <<futures, pc, cause, csv, csvExists, wpc>>
                ELSE IF PoolBroken
                THEN ProcessExit("BrokenProcessPool") /\ UNCHANGED futures
                ELSE /\ futures' = Append(futures, [path |-> path,
                                                    state |-> "pending",
                                                    res |-> NoInfo])
                     /\ UNCHANGED <<pc, cause, csv, csvExists, wpc>>

\* find_pdf_files, lines 47-55: the next line of find's output
FindNext ==
    /\ pc = "submit" /\ genPhase = "find" /\ genPos < Len(findOut)
    /\ genPos' = genPos + 1
    /\ Deliver(findOut[genPos + 1])
    /\ UNCHANGED <<envVars, docVars, genPhase, csv_queue, put_log, runs,
                   processed, batch_rows, stats, collected, runStartLen,
                   runStartExists, load_error>>

\* find_pdf_files, line 56: Popen or the read of a line raises
FindRaises ==
    /\ pc = "submit" /\ genPhase = "find"
    /\ genPos = 0 \/ genPos < Len(findOut)
    /\ genPhase' = "rglob"
    /\ genPos' = 0
    /\ UNCHANGED <<envVars, storeVars, mainVars, chanVars, docVars, seen, emitted>>

\* find_pdf_files, lines 57-62: the next entry of rglob
RglobNext ==
    /\ pc = "submit" /\ genPhase = "rglob"
    /\ genPos < Len(RglobListing(findOut, {}))
    /\ genPos' = genPos + 1
    /\ Deliver(RglobListing(findOut, {})[genPos + 1])
    /\ UNCHANGED <<envVars, docVars, genPhase, csv_queue, put_log, runs,
                   processed, batch_rows, stats, collected, runStartLen,
                   runStartExists, load_error>>

\* the generator is exhausted: the dict comprehension of line 151 ends
SubmitDone ==
    /\ pc = "submit"
    /\ \/ genPhase = "find" /\ genPos = Len(findOut)
       \/ genPhase = "rglob" /\ genPos = Len(RglobListing(findOut, {}))
    /\ genPhase' = "done"
    /\ pc' = "collect"
    /\ UNCHANGED <<envVars, storeVars, chanVars, docVars, genPos, seen, emitted,
                   cause, runs, processed, futures, batch_rows, stats,
                   collected, runStartLen, runStartExists, load_error>>

\* A worker process runs process_single_pdf for a pending future.
WorkerRuns(i) ==
    /\ pc \in {"submit", "collect", "put_batch"}
    /\ futures[i].state = "pending"
    /\ futures' = [futures EXCEPT ![i].state = "done",
                                  ![i].res = process_single_pdf(DocOf(futures[i].path))]
    /\ UNCHANGED <<envVars, storeVars, genVars, chanVars, docVars, pc, cause,
                   runs, processed, batch_rows, stats, collected, runStartLen,
                   runStartExists, load_error>>

\* A worker process dies inside PyMuPDF: the executor marks itself broken and
\* sets BrokenProcessPool on every future that has no result yet.
WorkerDies(i) ==
    /\ pc \in {"submit", "collect", "put_batch"}
    /\ futures[i].state = "pending"
    /\ futures' = [j \in DOMAIN futures |->
                     IF futures[j].state = "pending"
                     THEN [futures[j] EXCEPT !.state = "broken"]
                     ELSE futures[j]]
    /\ UNCHANGED <<envVars, storeVars, genVars, chanVars, docVars, pc, cause,
                   runs, processed, batch_rows, stats, collected, runStartLen,
                   runStartExists, load_error>>

\* The as_completed loop writing each row to the store itself, as the loop of
\* pdf_processor.main does, besides handing it to the writer thread.
CollectAndWrite(i) ==
    /\ pc = "collect"
    /\ futures[i].state \in {"done", "broken"}
    /\ IF futures[i].state = "broken"
       THEN /\ ProcessExit("BrokenProcessPool")
            /\ UNCHANGED <<futures, batch_rows, stats, collected>>
       ELSE LET res == futures[i].res
            IN  /\ futures' = [futures EXCEPT ![i].state = "collected"]
                /\ batch_rows' = Append(batch_rows, res)
                /\ collected' = Append(collected, res)
                /\ stats' = [processed |-> stats.processed + 1,
                             category_counts |->
                               [stats.category_counts EXCEPT
                                  ![res.category] = @ + 1]]
                /\ pc' = IF Len(batch_rows') >= BATCH_WRITE_SIZE
                         THEN "put_batch" ELSE "collect"
                /\ csv' = Append(csv, Row(res))
                /\ UNCHANGED <<cause, csvExists, wpc>>
    /\ UNCHANGED <<envVars, genVars, docVars, csv_queue, put_log, runs,
                   processed, runStartLen, runStartExists, load_error>>

\* lines 154-161: as_completed hands over a finished future
Collect(i) ==
    /\ pc = "collect"
    /\ futures[i].state \in {"done", "broken"}
    /\ IF futures[i].state = "broken"
       THEN /\ ProcessExit("BrokenProcessPool")
            /\ UNCHANGED <<futures, batch_rows, stats, collected>>
       ELSE LET res == futures[i].res
            IN  /\ futures' = [futures EXCEPT ![i].state = "collected"]
                /\ batch_rows' = Append(batch_rows, res)
                /\ collected' = Append(collected, res)
                /\ stats' = [processed |-> stats.processed + 1,
                             category_counts |->
                               [stats.category_counts EXCEPT
                                  ![res.category] = @ + 1]]
                /\ pc' = IF Len(batch_rows') >= BATCH_WRITE_SIZE
                         THEN "put_batch" ELSE "collect"
                /\ UNCHANGED <<cause, csv, csvExists, wpc>>
    /\ UNCHANGED <<envVars, genVars, docVars, csv_queue, put_log, runs,
                   processed, runStartLen, runStartExists, load_error>>

\* csv_queue.put(batch_rows) without the copy: the item in the queue is the
\* list that batch_rows.clear() then empties.
PutBatchWithoutCopy ==
    /\ pc = "put_batch"
    /\ Len(csv_queue) < CSV_QUEUE_MAXSIZE
    /\ csv_queue' = Append(csv_queue, Batch(<<>>))
    /\ put_log' = Append(put_log, Batch(<<>>))
    /\ batch_rows' = <<>>
    /\ pc' = "collect"
    /\ UNCHANGED <<envVars, storeVars, genVars, docVars, wpc, cause, runs,
                   processed, futures, stats, collected, runStartLen,
                   runStartExists, load_error>>

\* lines 162-163: csv_queue.put(batch_rows.copy()) blocks while the queue is
\* full; then batch_rows.clear()
PutBatch ==
    /\ pc = "put_batch"
    /\ Len(csv_queue) < CSV_QUEUE_MAXSIZE
    /\ csv_queue' = Append(csv_queue, Batch(batch_rows))
    /\ put_log' = Append(put_log, Batch(batch_rows))
    /\ batch_rows' = <<>>
    /\ pc' = "collect"
    /\ UNCHANGED <<envVars, storeVars, genVars, docVars, wpc, cause, runs,
                   processed, futures, stats, collected, runStartLen,
                   runStartExists, load_error>>

\* as_completed is exhausted and the with block of line 150 is left
CollectDone ==
    /\ pc = "collect"
    /\ \A i \in DOMAIN futures : futures[i].state = "collected"
    /\ pc' = "final"
    /\ UNCHANGED <<envVars, storeVars, genVars, chanVars, docVars, cause, runs,
                   processed, futures, batch_rows, stats, collected,
                   runStartLen, runStartExists, load_error>>

\* lines 172-173
PutFinal ==
    /\ pc = "final"
    /\ IF batch_rows # <<>>
       THEN /\ Len(csv_queue) < CSV_QUEUE_MAXSIZE
            /\ csv_queue' = Append(csv_queue, Batch(batch_rows))
            /\ put_log' = Append(put_log, Batch(batch_rows))
       ELSE UNCHANGED <<csv_queue, put_log>>
    /\ pc' = "sentinel"
    /\ UNCHANGED <<envVars, storeVars, genVars, docVars, wpc, cause, runs,
                   processed, futures, batch_rows, stats, collected,
                   runStartLen, runStartExists, load_error>>

\* line 174
PutNone ==
    /\ pc = "sentinel"
    /\ Len(csv_queue) < CSV_QUEUE_MAXSIZE
    /\ csv_queue' = Append(csv_queue, None)
    /\ put_log' = Append(put_log, None)
    /\ pc' = "join"
    /\ UNCHANGED <<envVars, storeVars, genVars, docVars, wpc, cause, runs,
                   processed, futures, batch_rows, stats, collected,
                   runStartLen, runStartExists, load_error>>

\* The summary logged with writer_thread.join() left out.
JoinWithoutWaiting ==
    /\ pc = "join"
    /\ pc' = "done"
    /\ UNCHANGED <<envVars, storeVars, genVars, chanVars, docVars, cause, runs,
                   processed, futures, batch_rows, stats, collected,
                   runStartLen, runStartExists, load_error>>

\* lines 175-185: writer_thread.join() returns once the thread has ended,
\* normally or by an exception; then the summary is logged
Join ==
    /\ pc = "join"
    /\ wpc \in {"exited", "dead"}
    /\ pc' = "done"
    /\ UNCHANGED <<envVars, storeVars, genVars, chanVars, docVars, cause, runs,
                   processed, futures, batch_rows, stats, collected,
                   runStartLen, runStartExists, load_error>>

\* KeyboardInterrupt in the main thread: nothing in process_pdfs or main
\* catches it
Interrupt ==
    /\ pc \in {"init", "spawn", "submit", "collect", "put_batch", "final",
               "sentinel", "join"}
    /\ ProcessExit("KeyboardInterrupt")
    /\ UNCHANGED <<envVars, genVars, docVars, csv_queue, put_log, runs,
                   processed, futures, batch_rows, stats, collected,
                   runStartLen, runStartExists, load_error>>

\* main() is invoked again on the same tree and the same store
NextRun ==
    /\ pc \in {"done", "exited"}
    /\ runs < MaxRuns
    /\ runs' = runs + 1
    /\ pc' = "init" /\ cause' = "none" /\ processed' = {}
    /\ load_error' = FALSE
    /\ genPhase' = "find" /\ genPos' = 0 /\ seen' = {} /\ emitted' = <<>>
    /\ futures' = <<>> /\ batch_rows' = <<>> /\ csv_queue' = <<>>
    /\ put_log' = <<>>
    /\ stats' = Stats0 /\ wpc' = "unborn" /\ collected' = <<>>
    /\ runStartLen' = Len(csv)
    /\ runStartExists' = csvExists
    /\ UNCHANGED <<envVars, storeVars, docVars>>

-----------------------------------------------------------------------------
(* csv_writer_thread.                                                      *)

\* lines 113-117
WriterOpen ==
    /\ wpc = "start"
    /\ IF csvOpenable
       THEN /\ csvExists' = TRUE
            /\ csv' = IF csvExists THEN csv ELSE Append(csv, HeaderRow)
            /\ wpc' = "loop"
       ELSE /\ wpc' = "dead"
            /\ UNCHANGED storeVars
    /\ UNCHANGED <<envVars, genVars, mainVars, docVars, csv_queue, put_log>>

\* lines 119-132: one queue.get() and what follows it.  No row of a batch is
\* None, so the test of line 124 never skips.
WriterGet ==
    /\ wpc = "loop"
    /\ csv_queue # <<>>
    /\ csv_queue' = Tail(csv_queue)
    /\ IF Head(csv_queue).sentinel
       THEN wpc' = "exited" /\ UNCHANGED csv
       ELSE csv' = csv \o Rows(Head(csv_queue).rows) /\ UNCHANGED wpc
    /\ UNCHANGED <<envVars, genVars, mainVars, docVars, csvExists, put_log>>

-----------------------------------------------------------------------------

Next ==
    \/ LoadProcessed
    \/ LoadRaises
    \/ StartWriter
    \/ FindNext
    \/ FindRaises
    \/ RglobNext
    \/ SubmitDone
    \/ \E i \in DOMAIN futures : WorkerRuns(i)
    \/ \E i \in DOMAIN futures : WorkerDies(i)
    \/ \E i \in DOMAIN futures : Collect(i)
    \/ PutBatch
    \/ CollectDone
    \/ PutFinal
    \/ PutNone
    \/ Join
    \/ Interrupt
    \/ NextRun
    \/ WriterOpen
    \/ WriterGet

Spec == Init /\ [][Next]_vars

-----------------------------------------------------------------------------
(* The runs in which find never fails, so that rglob is never used, and    *)
(* in which the store is read without an error.                            *)

NextFindWorks ==
    \/ LoadProcessed
    \/ StartWriter
    \/ FindNext
    \/ SubmitDone
    \/ \E i \in DOMAIN futures : WorkerRuns(i)
    \/ \E i \in DOMAIN futures : WorkerDies(i)
    \/ \E i \in DOMAIN futures : Collect(i)
    \/ PutBatch
    \/ CollectDone
    \/ PutFinal
    \/ PutNone
    \/ Join
    \/ Interrupt
    \/ NextRun
    \/ WriterOpen
    \/ WriterGet

SpecFindWorks == Init /\ [][NextFindWorks]_vars

-----------------------------------------------------------------------------
(* One invocation of process_pdfs, with everything that can fail in it.    *)

NextOneRun ==
    \/ LoadProcessed
    \/ LoadRaises
    \/ StartWriter
    \/ FindNext
    \/ FindRaises
    \/ RglobNext
    \/ SubmitDone
    \/ \E i \in DOMAIN futures : WorkerRuns(i)
    \/ \E i \in DOMAIN futures : WorkerDies(i)
    \/ \E i \in DOMAIN futures : Collect(i)
    \/ PutBatch
    \/ CollectDone
    \/ PutFinal
    \/ PutNone
    \/ Join
    \/ Interrupt
    \/ WriterOpen
    \/ WriterGet

SpecOneRun == Init /\ [][NextOneRun]_vars

-----------------------------------------------------------------------------
(* The runs against a store that does not exist before the first run, so   *)
(* that the store is created by csv_writer_thread.                         *)

InitFreshStore == Init /\ csvExists = FALSE

SpecFreshStore == InitFreshStore /\ [][Next]_vars

-----------------------------------------------------------------------------
(* One run over a tree of ManyFiles files in which nothing fails: find      *)
(* prints every file once, every worker returns, nobody interrupts.         *)

ManyNames == <<"f1.pdf", "f2.pdf", "f3.pdf", "f4.pdf", "f5.pdf", "f6.pdf",
               "f7.pdf", "f8.pdf", "f9.pdf">>

InitManyFiles ==
    /\ platform = "linux" /\ root_path = <<"d">>
    /\ rootExists = TRUE /\ csvOpenable = TRUE
    /\ findOut = [i \in 1..ManyFiles |-> FindLine(root_path, ManyNames[i])]
    /\ csv = <<>> /\ csvExists = FALSE
    /\ runs = 1
    /\ RunStart
    /\ runStartLen = 0 /\ runStartExists = csvExists
    /\ doc = NoDoc /\ info6 = NoInfo /\ info1 = NoInfo

NextManyFiles ==
    \/ LoadProcessed
    \/ StartWriter
    \/ FindNext
    \/ SubmitDone
    \/ \E i \in DOMAIN futures : WorkerRuns(i)
    \/ \E i \in DOMAIN futures : Collect(i)
    \/ PutBatch
    \/ CollectDone
    \/ PutFinal
    \/ PutNone
    \/ Join
    \/ WriterOpen
    \/ WriterGet

SpecManyFiles == InitManyFiles /\ [][NextManyFiles]_vars

-----------------------------------------------------------------------------
(* Properties of the pipeline.                                             *)

\* The rows of the store that are not the header row.
DataRowIdx == {i \in DOMAIN csv : csv[i][1] # <<"file_path">>}

\* The setup of the run is not fatal: the root exists, the store can be opened.
SetupOk == rootExists /\ csvOpenable

\* The data rows appended to the store since this run started.
AppendedIdx == {k \in DataRowIdx : k > runStartLen}

\* C1: under resume the store never holds two data rows for the same
\* normalized path, over any sequence of completed and interrupted runs
\* (stated for runs whose setup is not fatal).
C1_OneRowPerNormalizedPath ==
    SetupOk =>
        \A i, j \in DataRowIdx :
            i # j => normcase(csv[i][1]) # normcase(csv[j][1])

\* C2: the death of a worker process does not end the pipeline and does not
\* lose the path: once collection is over, every submitted path has a record,
\* and the record of a path whose worker died is N/A (stated for runs whose
\* setup is not fatal).
C2_WorkerIsolation ==
    SetupOk =>
    /\ cause # "BrokenProcessPool"
    /\ pc \in {"final", "sentinel", "join", "done"} =>
         \A i \in DOMAIN futures :
             \E k \in DOMAIN collected :
                 collected[k].file_path = PathStr(futures[i].path)

\* C3: in a run that reaches the final summary, the rows appended to the
\* store are exactly the records collected from the workers, one per
\* submitted path, each once.
C3_AppendedEqualsCollected ==
    pc = "done" =>
        /\ Len(collected) = Len(futures)
        /\ Cardinality(AppendedIdx) = Len(collected)
        /\ \A k \in DOMAIN collected :
               \E i \in AppendedIdx : csv[i] = Row(collected[k])

\* C4: after an interrupt, every classification that had completed before it
\* is in the store (stated for runs whose setup is not fatal).
C4_InterruptKeepsCompleted ==
    (SetupOk /\ pc = "exited" /\ cause = "KeyboardInterrupt") =>
        \A i \in DOMAIN futures :
            futures[i].state \in {"done", "collected"} =>
                \E k \in AppendedIdx : csv[k] = Row(futures[i].res)

\* C5: with the root path missing or the store not openable for append, the
\* run creates nothing, appends nothing (not even a header row), submits
\* nothing and does not run on to its summary.
C5_SetupFatalBeforeOutput ==
    (~rootExists \/ ~csvOpenable) =>
        /\ csvExists = runStartExists
        /\ Len(csv) = runStartLen
        /\ futures = <<>>
        /\ pc # "done"

\* C9: find_pdf_files never yields two paths with the same normalized form in
\* one run, whatever find prints and wherever it fails over to rglob, so the
\* run holds at most one classification and appends at most one record per
\* normalized path (stated for runs whose setup is not fatal).
C9_OneRecordPerFormInRun ==
    SetupOk =>
    /\ \A i, j \in DOMAIN emitted :
           i # j => normcase(emitted[i]) # normcase(emitted[j])
    /\ \A i, j \in DOMAIN futures :
           i # j => normcase(futures[i].path) # normcase(futures[j].path)
    /\ \A i, j \in AppendedIdx :
           i # j => normcase(csv[i][1]) # normcase(csv[j][1])

\* C10: once the writer has appended the record of a submitted path p, loading
\* the store yields the key the resume filter computes for p (stated for
\* runs whose setup is not fatal).
C10_ResumeRoundTrip ==
    SetupOk =>
    \A i \in DOMAIN futures :
        (/\ futures[i].state = "collected"
         /\ \E k \in AppendedIdx : csv[k][1] = futures[i].res.file_path)
        => normcase(futures[i].path) \in load_processed_csv(csv, csvExists)

\* C11: no submitted path has its normalized form in the resume index, and
\* the resume index does not change between the moment process_pdfs has built
\* it and the end of that invocation.
C11_ResumeFilterAndFrozenIndex ==
    /\ [](\A i \in DOMAIN futures : normcase(futures[i].path) \notin processed)
    /\ [][(pc # "init" /\ pc' # "init") => processed' = processed]_vars

\* C11 witness: a run with a non-empty resume index has finished; discovery
\* yielded a path of the index, which was not submitted, and a path outside
\* it, which was.
C11_Witness ==
    /\ pc = "done" /\ processed # {}
    /\ \E i \in DOMAIN emitted :
           /\ normcase(emitted[i]) \in processed
           /\ \A j \in DOMAIN futures : futures[j].path # emitted[i]
    /\ \E j \in DOMAIN futures : futures[j].state = "collected"

\* The lifecycle state of the orchestrator at a position of process_pdfs:
\* INIT (1) up to the start of the executor, RUNNING (2) inside the with
\* block, DRAINING (3) from its end to the return of join, DONE (4) at the
\* summary; 0 when the process has ended on an exception.
Phase(p) ==
    CASE p \in {"init", "spawn"} -> 1
      [] p \in {"submit", "collect", "put_batch"} -> 2
      [] p \in {"final", "sentinel", "join"} -> 3
      [] p = "done" -> 4
      [] OTHER -> 0

\* The records of the batches of a sequence of queue items, in order.
RECURSIVE LoggedRows(_)
LoggedRows(log) ==
    IF log = <<>> THEN <<>> ELSE Head(log).rows \o LoggedRows(Tail(log))

SentinelPut == \E i \in DOMAIN put_log : put_log[i].sentinel

\* C12: within one invocation the orchestrator only moves forward through
\* INIT, RUNNING, DRAINING, DONE (or the process ends); when the sentinel is
\* put, discovery is exhausted and every submitted classification has been
\* collected and enqueued; nothing is enqueued after the sentinel; the summary
\* is reached only when the writer thread has ended.
C12_LifecycleOrdering ==
    /\ [][\/ pc' = "exited"
          \/ pc \in {"done", "exited"} /\ pc' = "init" /\ runs' = runs + 1
          \/ Phase(pc) > 0 /\ Phase(pc') >= Phase(pc)]_vars
    /\ [](SentinelPut =>
            /\ genPhase = "done"
            /\ \A i \in DOMAIN futures : futures[i].state = "collected"
            /\ Len(collected) = Len(futures)
            /\ LoggedRows(put_log) = collected)
    /\ [](\A i \in DOMAIN put_log : put_log[i].sentinel => i = Len(put_log))
    /\ [][SentinelPut => (put_log' = put_log \/ pc' = "init")]_vars
    /\ [](pc = "done" => wpc \in {"exited", "dead"})

\* C12 witness: a run has reached its summary after putting a full batch, the
\* final partial batch and the sentinel, and the writer has left its loop.
C12_Witness ==
    /\ pc = "done" /\ wpc = "exited"
    /\ Len(put_log) = 3 /\ put_log[3].sentinel
    /\ Len(put_log[1].rows) = BATCH_WRITE_SIZE /\ put_log[2].rows # <<>>

\* The main thread stands in a csv_queue.put() that cannot return: the queue
\* is full and the thread that would take from it has ended.
BlockedOnPut ==
    /\ \/ pc \in {"put_batch", "sentinel"}
       \/ pc = "final" /\ batch_rows # <<>>
    /\ Len(csv_queue) = CSV_QUEUE_MAXSIZE
    /\ wpc \in {"exited", "dead"}

\* The rows of the store from row k + 1 on, header rows left out.
RECURSIVE DataRowsFrom(_)
DataRowsFrom(k) ==
    IF k >= Len(csv) THEN <<>>
    ELSE IF csv[k + 1][1] = <<"file_path">> THEN DataRowsFrom(k + 1)
    ELSE <<csv[k + 1]>> \o DataRowsFrom(k + 1)

\* C13: a run whose discovery ended and whose classifications all returned
\* ends at DONE with every enqueued batch written in order and the sentinel
\* taken by the writer, and the main thread never stands in a put() that
\* cannot return.  (Stated on the final state of a run that collected at
\* least one result: at the summary the writer has left its loop through the
\* sentinel, the queue is empty, and the rows the run appended are those of
\* the batches it enqueued.)
C13_DoneMeansAllWritten ==
    /\ (pc = "done" /\ collected # <<>>) =>
          /\ wpc = "exited"
          /\ csv_queue = <<>>
          /\ DataRowsFrom(runStartLen) = Rows(LoggedRows(put_log))
    /\ ~BlockedOnPut

\* The classified records that are in memory and not yet in the store: the
\* results of finished futures that as_completed has not handed over, and the
\* collected results in the pending batch and in the batches of the queue.
Unwritten ==
    Cardinality({i \in DOMAIN futures : futures[i].state = "done"})
    + Len(collected) - Len(DataRowsFrom(runStartLen))

\* The records a full queue and a full pending batch hold.
BacklogBound == CSV_QUEUE_MAXSIZE * BATCH_WRITE_SIZE + BATCH_WRITE_SIZE

\* C14: the queue never holds more than CSV_QUEUE_MAXSIZE items; while it is
\* full no worker completes a classification; and the classified records not
\* yet written never number more than a full queue and a full pending batch
\* hold, however many files the tree has.
C14_Backpressure ==
    /\ [](Len(csv_queue) <= CSV_QUEUE_MAXSIZE)
    /\ [][Len(csv_queue) = CSV_QUEUE_MAXSIZE =>
            \A i \in DOMAIN futures :
                futures[i].state = "pending" =>
                    futures'[i].state = "pending"]_vars
    /\ [](Unwritten <= BacklogBound)

\* The paths pulled from find_pdf_files and submitted whose result
\* as_completed has not yet handed over.
InFlight ==
    Cardinality({i \in DOMAIN futures :
                    futures[i].state \in {"pending", "done"}})

\* The claim names no constant; whatever it is, some tree has more files.
\* For the tree of ManyFiles files it is taken as large as it can be while
\* still smaller than the tree.
InFlightBound == ManyFiles - 1

\* C15: at every point the submitted paths whose result is not yet collected
\* number at most a constant that does not grow with the tree, so the run
\* never holds the whole set of discovered paths at once.
C15_StreamingDiscovery == InFlight <= InFlightBound

\* C16: when the read of the store failed, at whatever row, the run goes on
\* with an empty resume index: no discovered path is filtered out.
C16_LoadFailureGivesEmptyIndex ==
    load_error =>
        /\ pc # "init"
        /\ processed = {}
        /\ \A i \in DOMAIN emitted : ~InProcessed(emitted[i])

\* C17: over any sequence of runs the store, once it holds rows, has the
\* header as its first row and nowhere else; a run that found the store
\* existing appends no header; and no run shortens the store it found.
C17_ExactlyOneHeaderFirst ==
    /\ csv # <<>> => csv[1] = HeaderRow
    /\ \A i \in 2..Len(csv) : csv[i] # HeaderRow
    /\ runStartExists =>
          \A i \in DOMAIN csv : i > runStartLen => csv[i] # HeaderRow
    /\ Len(csv) >= runStartLen

C19_Batching ==
    /\ \A i \in DOMAIN put_log :
           ~put_log[i].sentinel =>
               /\ put_log[i].rows # <<>>
               /\ Len(put_log[i].rows) <= BATCH_WRITE_SIZE
               /\ (\E j \in DOMAIN put_log : j > i /\ ~put_log[j].sentinel)
                      => Len(put_log[i].rows) = BATCH_WRITE_SIZE
    /\ pc \in {"collect", "final", "sentinel", "join", "done"} =>
           Len(batch_rows) < BATCH_WRITE_SIZE
    /\ pc = "put_batch" => Len(batch_rows) = BATCH_WRITE_SIZE
    /\ Len(csv_queue) <= Len(put_log)
    /\ csv_queue = SubSeq(put_log, Len(put_log) - Len(csv_queue) + 1,
                          Len(put_log))

\* C19 witness: a full batch was put and the pending batch cleared, and the
\* final batch, a partial one, now waits in the queue behind it.
C19_Witness ==
    /\ pc = "sentinel" /\ Len(csv_queue) = 2 /\ Len(put_log) >= 2
    /\ Len(csv_queue[1].rows) = BATCH_WRITE_SIZE
    /\ csv_queue[2].rows # <<>> /\ Len(csv_queue[2].rows) < BATCH_WRITE_SIZE
    /\ batch_rows = csv_queue[2].rows

\* The sum of stats["category_counts"].
SumCounts(cc) == cc["S-S"] + cc["S-L"] + cc["L-S"] + cc["L-L"] + cc["N/A"]

\* The records of the pending batch.  Line 173 puts the last batch without
\* clearing the list, so from there on nothing is pending.
Pending == IF pc \in {"sentinel", "join", "done"} THEN 0 ELSE Len(batch_rows)

\* C20: at every point of a run stats["processed"] is the sum of the
\* per-category counts and the number of records enqueued in batches plus
\* those of the pending batch; at DONE it is the number of data rows the run
\* appended to the store.
C20_CounterConsistency ==
    /\ pc \notin {"exited", "off"} =>
          /\ stats.processed = SumCounts(stats.category_counts)
          /\ stats.processed = Len(LoggedRows(put_log)) + Pending
    /\ pc = "done" => stats.processed = Cardinality(AppendedIdx)

====
